---- MODULE Spec2Model ----
(***************************************************************************)
(* nquery: a command line query tool over the Nomad HTTP API.             *)
(*   src/src/nomad.rs : Client::get, get_client, get_jobs, get_job         *)
(*   src/src/main.rs  : Opt, get_jobs, handle_negative_flags, main         *)
(* Strings the code inspects character by character (job identifiers,     *)
(* prefixes, status and type tags) are sequences of one-character         *)
(* strings; strings the code only carries around are TLA+ strings.        *)
(***************************************************************************)
EXTENDS Naturals, Sequences, FiniteSets, TLC

VARIABLES
    pc,             \* where main is: "start", "flags", "list", "select", "output", or an end state
    cmd,            \* the parsed command line (struct Opt)
    address,        \* Client.address, read from NOMAD_ADDR by get_client
    periodic,       \* main's `periodic`: Option<bool>
    parameterized,  \* main's `parameterized`: Option<bool>
    job_listing,    \* get_jobs' `job_listing`: Vec<JobListing>
    idx,            \* position of the iterator chain in job_listing
    jobs,           \* the Vec<nomad::Job> collected so far
    requests,       \* every resource path handed to NomadClient::get, in order
    result,         \* outcome of the last call of a nomad.rs function
    ncalls,         \* how many calls of nomad.rs functions were made
    stdout,         \* what println! wrote
    stderr,         \* what eprintln! / the panic hook wrote
    exit_code       \* process exit status: Some(code) once the process has ended

vars == <<pc, cmd, address, periodic, parameterized, job_listing, idx, jobs,
          requests, result, ncalls, stdout, stderr, exit_code>>

(***************************************************************************)
(* Bounds of the model.                                                    *)
(***************************************************************************)
MaxJobs == 2        \* longest listing the server returns
MaxCalls == 2       \* calls of nomad.rs functions in one library run

(***************************************************************************)
(* Characters and strings.                                                 *)
(***************************************************************************)
Ascii ==
    <<" ", "!", "\"", "#", "$", "%", "&", "'", "(", ")", "*", "+", ",", "-", ".", "/",
      "0", "1", "2", "3", "4", "5", "6", "7", "8", "9", ":", ";", "<", "=", ">", "?",
      "@", "A", "B", "C", "D", "E", "F", "G", "H", "I", "J", "K", "L", "M", "N", "O",
      "P", "Q", "R", "S", "T", "U", "V", "W", "X", "Y", "Z", "[", "\\", "]", "^", "_",
      "(grave)", "a", "b", "c", "d", "e", "f", "g", "h", "i", "j", "k", "l", "m", "n", "o",
      "p", "q", "r", "s", "t", "u", "v", "w", "x", "y", "z", "{", "|", "}", "~">>

\* the code of each character: " " is 32, "~" is 126
AsciiCode == [c \in {Ascii[i] : i \in 1..Len(Ascii)} |-> 31 + (CHOOSE i \in 1..Len(Ascii) : Ascii[i] = c)]

Ord(c) == AsciiCode[c]

Chr(n) == Ascii[n - 31]

IsUpper(c) == Ord(c) \in 65..90

RECURSIVE Concat(_)
Concat(ss) == IF ss = <<>> THEN <<>> ELSE Head(ss) \o Concat(Tail(ss))

\* char::to_lowercase / u8::to_ascii_lowercase on the ASCII range
LowerChar(c) == IF IsUpper(c) THEN Chr(Ord(c) + 32) ELSE c

\* str::to_lowercase
to_lowercase(s) == [i \in 1..Len(s) |-> LowerChar(s[i])]

\* str::starts_with
starts_with(s, p) == Len(p) <= Len(s) /\ SubSeq(s, 1, Len(p)) = p

\* str::eq_ignore_ascii_case
eq_ignore_ascii_case(a, b) ==
    /\ Len(a) = Len(b)
    /\ \A i \in 1..Len(a) : LowerChar(a[i]) = LowerChar(b[i])

(***************************************************************************)
(* Option<T>. None carries the default of its type so that all options of *)
(* one type are comparable.                                                *)
(***************************************************************************)
Some(x) == [some |-> TRUE, v |-> x]
NoneBool == [some |-> FALSE, v |-> FALSE]
NoneStr == [some |-> FALSE, v |-> <<>>]
unwrap_or(opt, d) == IF opt.some THEN opt.v ELSE d

(***************************************************************************)
(* nomad.rs                                                                *)
(***************************************************************************)
DefaultAddress == "http://127.0.0.1:4646"

\* get_client: NOMAD_ADDR if set, the default otherwise
get_client(env) == IF env.some THEN env.v ELSE DefaultAddress

\* Variant: the set that also leaves the unreserved marks - . _ ~ as they are
NON_ALPHANUMERIC_Unreserved(c) ==
    ~(Ord(c) \in (48..57) \cup (65..90) \cup (97..122) \cup {45, 46, 95, 126})

\* percent_encoding::NON_ALPHANUMERIC: everything but ASCII letters and digits
NON_ALPHANUMERIC(c) == ~(Ord(c) \in (48..57) \cup (65..90) \cup (97..122))

HexDigits == <<"0", "1", "2", "3", "4", "5", "6", "7", "8", "9", "A", "B", "C", "D", "E", "F">>

PercentEncodeChar(c) ==
    IF NON_ALPHANUMERIC(c)
    THEN <<"%", HexDigits[(Ord(c) \div 16) + 1], HexDigits[(Ord(c) % 16) + 1]>>
    ELSE <<c>>

utf8_percent_encode(s) == Concat([i \in 1..Len(s) |-> PercentEncodeChar(s[i])])

\* Messages of anyhow errors: the format used and what was interpolated.
NoMsg == [fmt |-> "none", address |-> "", status |-> 0, text |-> ""]
ConnectMsg(addr) == [fmt |-> "Could not connect to server at {}", address |-> addr, status |-> 0, text |-> ""]
StatusMsg(st, txt) == [fmt |-> "{}: {}", address |-> "", status |-> st, text |-> txt]
ReadMsg == [fmt |-> "failed to read response", address |-> "", status |-> 0, text |-> ""]
SerdeMsg == [fmt |-> "serde_json::Error", address |-> "", status |-> 0, text |-> ""]

\* What the call() of ureq can hand back. A synthetic response stands for a
\* transport failure (ureq gives it status 500 and the error as text); any other
\* response came from the server, whatever its status.
RefusedText == "Connection Failed: Connection refused (os error 111)"
DnsText == "Dns Failed: failed to lookup address information"
NoResponse(o) == o.synthetic
ContainsConnectionRefused(txt) == txt = RefusedText

\* body: "expected" is JSON of the shape the caller decodes, "other_json" is JSON
\* of another shape, "not_json" is empty or not JSON at all.
Bodies == {"expected", "other_json", "not_json"}
Statuses == {200, 404}

ServerResponses ==
    [synthetic : {FALSE}, error : {""}, status : Statuses, body : Bodies]

TransportFailures ==
    [synthetic : {TRUE}, error : {RefusedText, DnsText}, status : {500}, body : {"not_json"}]

UreqOutcomes == ServerResponses \cup TransportFailures

GetOk(resp) == [ok |-> TRUE, resp |-> resp, msg |-> NoMsg]
GetErr(o, m) == [ok |-> FALSE, resp |-> o, msg |-> m]

\* impl NomadClient for Client: get
ClientGet(addr, resource, o) ==
    IF NoResponse(o)
    THEN GetErr(o, IF ContainsConnectionRefused(o.error)
                   THEN ConnectMsg(addr)
                   ELSE StatusMsg(o.status, o.error))
    ELSE GetOk(o)

\* impl NomadClient for TestClient (mod test): always Ok(Response::new(..))
TestClientGet(resource, o) == GetOk(o)

NomadClientGet(client, resource, o) ==
    IF client.impl = "TestClient"
    THEN TestClientGet(resource, o)
    ELSE ClientGet(client.address, resource, o)

\* ureq::Response::into_json
into_json_ok(resp) == resp.body # "not_json"

\* serde_json::from_value into the type the caller asks for
from_value_ok(resp) == resp.body = "expected"

Ret(kind, msg) == [kind |-> kind, msg |-> msg]

JobsResource == <<"j", "o", "b", "s">>
PrefixParam == <<"?", "p", "r", "e", "f", "i", "x", "=">>

\* get_jobs: the resource path
JobsPath(prefix) == JobsResource \o PrefixParam \o utf8_percent_encode(prefix)

\* get_jobs: the value returned for the response o
get_jobs_ret(client, prefix, o) ==
    LET r == NomadClientGet(client, JobsPath(prefix), o) IN
    IF r.ok
    THEN IF into_json_ok(r.resp)
         THEN IF from_value_ok(r.resp) THEN Ret("Ok", NoMsg) ELSE Ret("Panic", NoMsg)
         ELSE Ret("Err", ReadMsg)
    ELSE Ret("Err", r.msg)

\* get_job: the resource path
JobPath(id) == <<"j", "o", "b", "/">> \o id

\* get_job: the value returned for the response o
get_job_ret(client, id, o) ==
    LET r == NomadClientGet(client, JobPath(id), o) IN
    IF ~r.ok
    THEN Ret("Panic", NoMsg)
    ELSE IF into_json_ok(r.resp)
         THEN IF from_value_ok(r.resp) THEN Ret("Ok", NoMsg) ELSE Ret("Err", SerdeMsg)
         ELSE Ret("Err", ReadMsg)

(***************************************************************************)
(* The cluster the tool talks to: the jobs the server may list, and the    *)
(* full record it serves for each of them.                                 *)
(***************************************************************************)
JobListing(id, name, type, status, par, per) ==
    [ID |-> id, Name |-> name, Type |-> type, Status |-> status,
     ParameterizedJob |-> par, Periodic |-> per]

Example == JobListing(<<"E", "x", "a", "m", "p", "l", "e">>, <<"w", "e", "b">>,
                      <<"s", "e", "r", "v", "i", "c", "e">>, <<"r", "u", "n", "n", "i", "n", "g">>,
                      NoneBool, NoneBool)
ExCron == JobListing(<<"e", "x", "-", "c", "r", "o", "n">>, <<"c", "r", "o", "n">>,
                     <<"b", "a", "t", "c", "h">>, <<"d", "e", "a", "d">>,
                     Some(FALSE), Some(TRUE))
BatchJob == JobListing(<<"B", "a", "t", "c", "h">>, <<"e", "x", "t", "r", "a", "c", "t">>,
                       <<"B", "a", "t", "c", "h">>, <<"R", "u", "n", "n", "i", "n", "g">>,
                       Some(TRUE), Some(FALSE))
ExDispatch == JobListing(<<"e", "x", "/", "d">>, <<"e", "x">>,
                         <<"b", "a", "t", "c", "h">>, <<"r", "u", "n", "n", "i", "n", "g">>,
                         Some(TRUE), Some(TRUE))

Cluster == {Example, ExCron, BatchJob, ExDispatch}

\* A JSON document is the sequence of its leaves, each <<path, scalar>>, in the
\* order of the document; a node of it is the leaves below one path.
Leaf(path, v) == <<path, v>>

ExampleDoc ==
    <<Leaf(<<"ID">>, "Example"), Leaf(<<"Meta", "owner">>, "ops"), Leaf(<<"Meta", "team">>, "web"),
      Leaf(<<"ParameterizedJob">>, "null"), Leaf(<<"Periodic">>, "null"),
      Leaf(<<"Status">>, "running"), Leaf(<<"Type">>, "service")>>
ExCronDoc ==
    <<Leaf(<<"ID">>, "ex-cron"), Leaf(<<"Meta", "owner">>, "data"),
      Leaf(<<"ParameterizedJob">>, "null"),
      Leaf(<<"Periodic", "Enabled">>, "true"), Leaf(<<"Periodic", "Spec">>, "@daily"),
      Leaf(<<"Status">>, "dead"), Leaf(<<"Type">>, "batch")>>
BatchDoc ==
    <<Leaf(<<"ID">>, "Batch"), Leaf(<<"Meta">>, "null"),
      Leaf(<<"ParameterizedJob", "Payload">>, "optional"), Leaf(<<"Periodic">>, "null"),
      Leaf(<<"Status">>, "Running"), Leaf(<<"Type">>, "Batch")>>
ExDispatchDoc ==
    <<Leaf(<<"ID">>, "ex/d"), Leaf(<<"Meta", "a">>, "1"), Leaf(<<"Meta", "b">>, "2"),
      Leaf(<<"Meta", "c">>, "3"),
      Leaf(<<"ParameterizedJob", "Payload">>, "required"),
      Leaf(<<"Periodic", "Enabled">>, "false"), Leaf(<<"Periodic", "Spec">>, "@hourly"),
      Leaf(<<"Status">>, "running"), Leaf(<<"Type">>, "batch")>>

\* The nomad::Job decoded from the body the server sends for job/<id>
ServerJob(id) ==
    CASE id = Example.ID -> ExampleDoc
      [] id = ExCron.ID -> ExCronDoc
      [] id = BatchJob.ID -> BatchDoc
      [] id = ExDispatch.ID -> ExDispatchDoc

\* Listings the server may return: up to MaxJobs distinct jobs, in any order
Listings ==
    UNION {{l \in [1..n -> Cluster] : \A i, j \in 1..n : i # j => l[i] # l[j]} : n \in 0..MaxJobs}

(***************************************************************************)
(* main.rs                                                                 *)
(***************************************************************************)
Running == [some |-> FALSE, v |-> 0]    \* exit_code while the process runs
PanicExit == 101    \* exit status of a Rust process that panicked
UsageExit == 1      \* exit status of clap on a usage error

\* Field names given with --fields, each the dot-separated segments of the
\* string; the empty string is no path at all.
FieldID == <<"ID">>
FieldMetaAll == <<"Meta", "*">>
FieldSpec == <<"Periodic", "Spec">>
FieldNope == <<"Nope">>
FieldEmpty == <<>>

FieldLists ==
    {<<>>, <<FieldID>>, <<FieldMetaAll, FieldSpec, FieldID>>, <<FieldNope, FieldMetaAll, FieldMetaAll>>,
     <<FieldID, FieldEmpty>>}

JobNames == {<<>>, <<"e", "x">>, <<"E", "X", "A">>, <<"e", "x", "/", "d", "d">>}
StatusArgs == {NoneStr, Some(<<"R", "U", "N", "N", "I", "N", "G">>), Some(<<"d", "e", "a", "d">>)}
TypeArgs == {NoneStr, Some(<<"b", "a", "t", "c", "h">>)}

\* struct Opt as the command line gives it (--pretty is read only when printing)
Opts ==
    [status : StatusArgs, periodic : BOOLEAN, no_periodic : BOOLEAN,
     parameterized : BOOLEAN, no_parameterized : BOOLEAN,
     job_type : TypeArgs, fields : FieldLists, job_name : JobNames]


\* Variant: conflicts_with declared on the periodic pair only
conflicts_with_PeriodicOnly(o) == o.periodic /\ o.no_periodic

\* structopt conflicts_with: the combinations Opt::from_args rejects
conflicts_with(o) ==
    \/ o.periodic /\ o.no_periodic
    \/ o.parameterized /\ o.no_parameterized

\* handle_negative_flags
handle_negative_flags(flag_tuple) ==
    CASE flag_tuple = <<FALSE, FALSE>> -> [panic |-> FALSE, v |-> NoneBool]
      [] flag_tuple = <<TRUE, FALSE>> -> [panic |-> FALSE, v |-> Some(TRUE)]
      [] flag_tuple = <<FALSE, TRUE>> -> [panic |-> FALSE, v |-> Some(FALSE)]
      [] OTHER -> [panic |-> TRUE, v |-> NoneBool]

\* Variant: an unset periodic filter read as its default, false
PeriodicFilter_NoneAsFalse(periodic_filter, job) ==
    periodic_filter.v = unwrap_or(job.Periodic, FALSE)

\* Variant: an absent Periodic flag read as true
PeriodicFilter_AbsentAsTrue(periodic_filter, job) ==
    IF periodic_filter.some
    THEN periodic_filter.v = unwrap_or(job.Periodic, TRUE)
    ELSE TRUE

\* Variant: the prefix matched against Name instead of ID
NameFilter_ByName(name_filter, job) ==
    starts_with(to_lowercase(job.Name), to_lowercase(name_filter))

\* Variant: the type compared with ==
TypeFilter_CaseSensitive(job_type_filter, job) ==
    IF job_type_filter.some
    THEN job.Type = job_type_filter.v
    ELSE TRUE

\* get_jobs: the five closures handed to filter, in the order of the chain
PeriodicFilter(periodic_filter, job) ==
    IF periodic_filter.some
    THEN periodic_filter.v = unwrap_or(job.Periodic, FALSE)
    ELSE TRUE

ParameterizedFilter(parameterized_filter, job) ==
    IF parameterized_filter.some
    THEN parameterized_filter.v = unwrap_or(job.ParameterizedJob, FALSE)
    ELSE TRUE

NameFilter(name_filter, job) ==
    starts_with(to_lowercase(job.ID), to_lowercase(name_filter))

StatusFilter(status_filter, job) ==
    IF status_filter.some
    THEN eq_ignore_ascii_case(job.Status, status_filter.v)
    ELSE TRUE

TypeFilter(job_type_filter, job) ==
    IF job_type_filter.some
    THEN eq_ignore_ascii_case(job.Type, job_type_filter.v)
    ELSE TRUE

\* The arguments main passes to get_jobs
Criteria(name, status, type, per, par) ==
    [name_filter |-> name, status_filter |-> status, job_type_filter |-> type,
     periodic_filter |-> per, parameterized_filter |-> par]

\* get_jobs: whether the filter chain lets a listing entry through to the map
Survives(c, job) ==
    /\ PeriodicFilter(c.periodic_filter, job)
    /\ ParameterizedFilter(c.parameterized_filter, job)
    /\ NameFilter(c.name_filter, job)
    /\ StatusFilter(c.status_filter, job)
    /\ TypeFilter(c.job_type_filter, job)

\* The client main's get_jobs builds
MainClient == [impl |-> "Client", address |-> address]

\* Nomad::get_jobs and Nomad::get_job, the methods main calls on `server`:
\* the functions of nomad.rs on the server's client, the listing unnarrowed.
ServerGetJobs(o) == get_jobs_ret(MainClient, <<>>, o)
ServerGetJob(id, o) == get_job_ret(MainClient, id, o)

\* What is recorded about a call of a nomad.rs function
Call(fn, client, arg, o, ret) ==
    [fn |-> fn, impl |-> client.impl, address |-> client.address, arg |-> arg,
     outcome |-> o, kind |-> ret.kind, msg |-> ret.msg]

NoCall ==
    [fn |-> "none", impl |-> "none", address |-> "", arg |-> <<>>,
     outcome |-> [synthetic |-> FALSE, error |-> "", status |-> 0, body |-> "not_json"],
     kind |-> "none", msg |-> NoMsg]

(***************************************************************************)
(* The path engine (jsonpath::select) on a document.                       *)
(***************************************************************************)
IsPrefix(a, path) == Len(a) <= Len(path) /\ SubSeq(path, 1, Len(a)) = a

\* the node at address a exists
NodeExists(doc, a) == \E i \in 1..Len(doc) : IsPrefix(a, doc[i][1])

\* the value of the node at address a: its leaves, addressed from a
NodeAt(doc, a) ==
    LET below == SelectSeq(doc, LAMBDA leaf : IsPrefix(a, leaf[1])) IN
    [i \in 1..Len(below) |-> <<SubSeq(below[i][1], Len(a) + 1, Len(below[i][1])), below[i][2]>>]

\* the keys of the children of the node at a, in document order
RECURSIVE Dedup(_)
Dedup(s) ==
    IF s = <<>> THEN <<>>
    ELSE LET rest == Dedup(SubSeq(s, 1, Len(s) - 1)) IN
         IF \E i \in 1..Len(rest) : rest[i] = s[Len(s)] THEN rest ELSE Append(rest, s[Len(s)])

ChildKeys(doc, a) ==
    LET below == SelectSeq(doc, LAMBDA leaf : IsPrefix(a, leaf[1]) /\ Len(leaf[1]) > Len(a)) IN
    Dedup([i \in 1..Len(below) |-> below[i][1][Len(a) + 1]])

\* one segment of the path applied to the addresses reached so far
StepPath(doc, addrs, seg) ==
    Concat([i \in 1..Len(addrs) |->
        IF seg = "*"
        THEN LET ks == ChildKeys(doc, addrs[i]) IN [k \in 1..Len(ks) |-> Append(addrs[i], ks[k])]
        ELSE IF NodeExists(doc, Append(addrs[i], seg)) THEN <<Append(addrs[i], seg)>> ELSE <<>>])

RECURSIVE Resolve(_, _, _)
Resolve(doc, addrs, segs) ==
    IF segs = <<>> THEN addrs ELSE Resolve(doc, StepPath(doc, addrs, Head(segs)), Tail(segs))

\* format!("$.{}", f) is a path the engine accepts
SelectorOk(f) == f # <<>>

\* jsonpath::select(&job_json, "$.<f>"): the nodes matched, in traversal order
select(job_json, f) ==
    LET found == Resolve(job_json, <<<<>>>>, f) IN
    [i \in 1..Len(found) |-> NodeAt(job_json, found[i])]

(***************************************************************************)
(* main: the projection of one job (the body of `for job in jobs`).        *)
(***************************************************************************)
\* Variant: only the first match is inserted
InsertMatches_FirstWins(job_view, path, matches) ==
    IF matches = <<>> THEN job_view
    ELSE [k \in DOMAIN job_view \cup {path} |-> IF k = path THEN Head(matches) ELSE job_view[k]]

\* `for matched in matches { job_view.insert(path, matched) }`
RECURSIVE InsertMatches(_, _, _)
InsertMatches(job_view, path, matches) ==
    IF matches = <<>> THEN job_view
    ELSE InsertMatches([k \in DOMAIN job_view \cup {path} |->
                            IF k = path THEN Head(matches) ELSE job_view[k]],
                       path, Tail(matches))

\* `for (path, selector) in &paths`: paths is a HashMap keyed by field
RECURSIVE ProjectPaths(_, _, _)
ProjectPaths(job_view, job, paths) ==
    IF paths = {} THEN job_view
    ELSE LET path == CHOOSE f \in paths : TRUE IN
         ProjectPaths(InsertMatches(job_view, path, select(job, path)), job, paths \ {path})

Range(s) == {s[i] : i \in 1..Len(s)}
EmptyView == [k \in {} |-> <<>>]

JobView(job, fields) == ProjectPaths(EmptyView, job, Range(fields))

\* select(..).unwrap() panics on a selector the engine rejects
ProjectionPanics(js, fields) == js # <<>> /\ \E f \in Range(fields) : ~SelectorOk(f)

Flatten(js, fields) == [j \in 1..Len(js) |-> JobView(js[j], fields)]

(***************************************************************************)
(* The run of the command: Init and one action per step of main.          *)
(***************************************************************************)
EnvUnset == [some |-> FALSE, v |-> ""]
EnvValues == {EnvUnset, [some |-> TRUE, v |-> "http://nomad.example:4646"]}

\* The command is run with NOMAD_ADDR unset and any command line of Opts
Init ==
    /\ pc = "start"
    /\ cmd \in Opts
    /\ address = get_client(EnvUnset)
    /\ periodic = NoneBool
    /\ parameterized = NoneBool
    /\ job_listing = <<>>
    /\ idx = 0
    /\ jobs = <<>>
    /\ requests = <<>>
    /\ result = NoCall
    /\ ncalls = 0
    /\ stdout = <<>>
    /\ stderr = <<>>
    /\ exit_code = Running

\* a panic: the hook writes to stderr and the process ends with status 101
Panic(why) ==
    /\ pc' = "panicked"
    /\ stderr' = Append(stderr, why)
    /\ exit_code' = Some(PanicExit)

\* Opt::from_args
FromArgs ==
    /\ pc = "start"
    /\ IF conflicts_with(cmd)
       THEN /\ pc' = "usage"
            /\ stderr' = Append(stderr, "error: the argument cannot be used with the other")
            /\ exit_code' = Some(UsageExit)
       ELSE /\ pc' = "flags"
            /\ UNCHANGED <<stderr, exit_code>>
    /\ UNCHANGED <<cmd, address, periodic, parameterized, job_listing, idx, jobs,
                   requests, result, ncalls, stdout>>

\* main: the two calls of handle_negative_flags
HandleFlags ==
    /\ pc = "flags"
    /\ LET per == handle_negative_flags(<<cmd.periodic, cmd.no_periodic>>)
           par == handle_negative_flags(<<cmd.parameterized, cmd.no_parameterized>>)
       IN IF per.panic \/ par.panic
          THEN /\ Panic("This shouldn't happen")
               /\ UNCHANGED <<periodic, parameterized>>
          ELSE /\ periodic' = per.v
               /\ parameterized' = par.v
               /\ pc' = "list"
               /\ UNCHANGED <<stderr, exit_code>>
    /\ UNCHANGED <<cmd, address, job_listing, idx, jobs, requests, result, ncalls, stdout>>

\* get_jobs: `server.get_jobs()?`; on Err main prints it and exits with 1
ListJobs ==
    /\ pc = "list"
    /\ \E o \in UreqOutcomes :
         LET ret == ServerGetJobs(o) IN
         /\ requests' = Append(requests, JobsPath(<<>>))
         /\ result' = Call("get_jobs", MainClient, <<>>, o, ret)
         /\ ncalls' = ncalls + 1
         /\ CASE ret.kind = "Ok" ->
                   /\ \E l \in Listings : job_listing' = l
                   /\ idx' = 1
                   /\ pc' = "select"
                   /\ UNCHANGED <<stderr, exit_code>>
              [] ret.kind = "Err" ->
                   /\ pc' = "failed"
                   /\ stderr' = Append(stderr, ret.msg.fmt)
                   /\ exit_code' = Some(1)
                   /\ UNCHANGED <<job_listing, idx>>
              [] OTHER ->
                   /\ Panic("failed to decode response")
                   /\ UNCHANGED <<job_listing, idx>>
    /\ UNCHANGED <<cmd, address, periodic, parameterized, jobs, stdout>>

MainCriteria == Criteria(cmd.job_name, cmd.status, cmd.job_type, periodic, parameterized)

\* get_jobs: the iterator chain drops the next listing entry
SkipJob ==
    /\ pc = "select"
    /\ idx <= Len(job_listing)
    /\ ~Survives(MainCriteria, job_listing[idx])
    /\ idx' = idx + 1
    /\ UNCHANGED <<pc, cmd, address, periodic, parameterized, job_listing, jobs,
                   requests, result, ncalls, stdout, stderr, exit_code>>

\* Variant: a failed detail fetch is skipped and the chain goes on
FetchJob_SkipOnError ==
    /\ pc = "select"
    /\ idx <= Len(job_listing)
    /\ Survives(MainCriteria, job_listing[idx])
    /\ \E o \in UreqOutcomes :
         LET id == job_listing[idx].ID
             ret == ServerGetJob(id, o)
         IN /\ requests' = Append(requests, JobPath(id))
            /\ result' = Call("get_job", MainClient, id, o, ret)
            /\ ncalls' = ncalls + 1
            /\ jobs' = IF ret.kind = "Ok" THEN Append(jobs, ServerJob(id)) ELSE jobs
            /\ idx' = idx + 1
    /\ UNCHANGED <<pc, stderr, exit_code, cmd, address, periodic, parameterized, job_listing, stdout>>

\* get_jobs: the next listing entry passes and `server.get_job(&job.ID).unwrap()` runs
FetchJob ==
    /\ pc = "select"
    /\ idx <= Len(job_listing)
    /\ Survives(MainCriteria, job_listing[idx])
    /\ \E o \in UreqOutcomes :
         LET id == job_listing[idx].ID
             ret == ServerGetJob(id, o)
         IN /\ requests' = Append(requests, JobPath(id))
            /\ result' = Call("get_job", MainClient, id, o, ret)
            /\ ncalls' = ncalls + 1
            /\ IF ret.kind = "Ok"
               THEN /\ jobs' = Append(jobs, ServerJob(id))
                    /\ idx' = idx + 1
                    /\ UNCHANGED <<pc, stderr, exit_code>>
               ELSE /\ Panic("called Result::unwrap() on an Err value")
                    /\ UNCHANGED <<jobs, idx>>
    /\ UNCHANGED <<cmd, address, periodic, parameterized, job_listing, stdout>>

\* get_jobs: collect() ends the chain and main takes Ok(found_jobs)
Collect ==
    /\ pc = "select"
    /\ idx > Len(job_listing)
    /\ pc' = "output"
    /\ UNCHANGED <<cmd, address, periodic, parameterized, job_listing, idx, jobs,
                   requests, result, ncalls, stdout, stderr, exit_code>>

Printed(pretty, projected, value) == [pretty |-> pretty, projected |-> projected, value |-> value]

\* main: no --fields, the jobs themselves are printed
PrintJobs ==
    /\ pc = "output"
    /\ cmd.fields = <<>>
    /\ \E pretty \in BOOLEAN : stdout' = Append(stdout, Printed(pretty, FALSE, jobs))
    /\ pc' = "done"
    /\ exit_code' = Some(0)
    /\ UNCHANGED <<cmd, address, periodic, parameterized, job_listing, idx, jobs,
                   requests, result, ncalls, stderr>>

\* main: --fields given, one flattened mapping per job is printed
PrintFields ==
    /\ pc = "output"
    /\ cmd.fields # <<>>
    /\ IF ProjectionPanics(jobs, cmd.fields)
       THEN /\ Panic("called Result::unwrap() on an Err value")
            /\ UNCHANGED stdout
       ELSE /\ \E pretty \in BOOLEAN :
                 stdout' = Append(stdout, Printed(pretty, TRUE, Flatten(jobs, cmd.fields)))
            /\ pc' = "done"
            /\ exit_code' = Some(0)
            /\ UNCHANGED stderr
    /\ UNCHANGED <<cmd, address, periodic, parameterized, job_listing, idx, jobs,
                   requests, result, ncalls>>

Next ==
    \/ FromArgs
    \/ HandleFlags
    \/ ListJobs
    \/ SkipJob
    \/ FetchJob
    \/ Collect
    \/ PrintJobs
    \/ PrintFields

Spec == Init /\ [][Next]_vars

(***************************************************************************)
(* The library on its own: nomad.rs called the way its tests call it, with *)
(* either implementation of NomadClient and any response.                  *)
(***************************************************************************)
Str_example == <<"e", "x", "a", "m", "p", "l", "e">>
Str_dispatch ==
    <<"d", "i", "s", "p", "a", "t", "c", "h", "-", "e", "x", "a", "m", "p", "l", "e", "/",
      "p", "e", "r", "i", "o", "d", "i", "c", "-", "1", "0", "2", "0", "0", "2">>
Str_a_b_c == <<"a", "/", "b", " ", "c">>
Str_query == <<"a", "&", "b", "=", "c", "?", "%">>

Prefixes == {<<>>, Str_example, Str_dispatch, Str_a_b_c, Str_query}
JobIds == {Str_example, Str_dispatch, Str_a_b_c}
Impls == {"Client", "TestClient"}

\* TestClient answers with Response::new(status, text, body): never a synthetic one
OutcomesOf(impl) == IF impl = "TestClient" THEN ServerResponses ELSE UreqOutcomes

LibOpt ==
    [status |-> NoneStr, periodic |-> FALSE, no_periodic |-> FALSE,
     parameterized |-> FALSE, no_parameterized |-> FALSE,
     job_type |-> NoneStr, fields |-> <<>>, job_name |-> <<>>]

LibInit ==
    /\ pc = "lib"
    /\ cmd = LibOpt
    /\ \E env \in EnvValues : address = get_client(env)
    /\ periodic = NoneBool
    /\ parameterized = NoneBool
    /\ job_listing = <<>>
    /\ idx = 0
    /\ jobs = <<>>
    /\ requests = <<>>
    /\ result = NoCall
    /\ ncalls = 0
    /\ stdout = <<>>
    /\ stderr = <<>>
    /\ exit_code = Running

LibUnchanged ==
    UNCHANGED <<pc, cmd, address, periodic, parameterized, job_listing, idx, jobs,
                stdout, stderr, exit_code>>

\* nomad::get_jobs(&mut client, prefix)
CallGetJobs ==
    /\ pc = "lib"
    /\ ncalls < MaxCalls
    /\ \E impl \in Impls, prefix \in Prefixes :
         \E o \in OutcomesOf(impl) :
           LET client == [impl |-> impl, address |-> address] IN
           /\ requests' = Append(requests, JobsPath(prefix))
           /\ result' = Call("get_jobs", client, prefix, o, get_jobs_ret(client, prefix, o))
    /\ ncalls' = ncalls + 1
    /\ LibUnchanged

\* nomad::get_job(&mut client, id)
CallGetJob ==
    /\ pc = "lib"
    /\ ncalls < MaxCalls
    /\ \E impl \in Impls, id \in JobIds :
         \E o \in OutcomesOf(impl) :
           LET client == [impl |-> impl, address |-> address] IN
           /\ requests' = Append(requests, JobPath(id))
           /\ result' = Call("get_job", client, id, o, get_job_ret(client, id, o))
    /\ ncalls' = ncalls + 1
    /\ LibUnchanged

\* Client::get(resource) itself
CallClientGet ==
    /\ pc = "lib"
    /\ ncalls < MaxCalls
    /\ \E resource \in {JobsPath(<<>>), JobPath(Str_example)}, o \in UreqOutcomes :
         LET client == [impl |-> "Client", address |-> address]
             r == ClientGet(address, resource, o)
         IN /\ requests' = Append(requests, resource)
            /\ result' = Call("Client::get", client, resource, o,
                              Ret(IF r.ok THEN "Ok" ELSE "Err", r.msg))
    /\ ncalls' = ncalls + 1
    /\ LibUnchanged

LibNext == CallGetJobs \/ CallGetJob \/ CallClientGet

LibSpec == LibInit /\ [][LibNext]_vars

(***************************************************************************)
(* Properties.                                                             *)
(***************************************************************************)
Last(s) == s[Len(s)]
DocsOf(entries) == [i \in 1..Len(entries) |-> ServerJob(entries[i].ID)]
Returned == pc \in {"output", "done"}    \* get_jobs returned Ok(jobs) to main
Chars_ex == <<"e", "x">>

\* The predicates as the documentation of get_jobs words them
WantsName(e) ==
    LET id == to_lowercase(e.ID)
        p == to_lowercase(cmd.job_name)
    IN Len(p) <= Len(id) /\ \A i \in 1..Len(p) : id[i] = p[i]
WantsStatus(e) == cmd.status.some => to_lowercase(e.Status) = to_lowercase(cmd.status.v)
WantsType(e) == cmd.job_type.some => to_lowercase(e.Type) = to_lowercase(cmd.job_type.v)
WantsPeriodic(e) == periodic.some => (periodic.v <=> e.Periodic = Some(TRUE))
WantsParameterized(e) == parameterized.some => (parameterized.v <=> e.ParameterizedJob = Some(TRUE))
Wanted(e) ==
    WantsName(e) /\ WantsStatus(e) /\ WantsType(e) /\ WantsPeriodic(e) /\ WantsParameterized(e)

Unconstrained ==
    /\ cmd.job_name = <<>>
    /\ ~cmd.status.some
    /\ ~cmd.job_type.some
    /\ ~periodic.some
    /\ ~parameterized.some

\* C1: with all five criteria unconstrained, a get_jobs that returns holds exactly
\* one full job per listing entry: as many as the listing, the i-th being the
\* detail of the i-th entry, and that is what is printed when no field is asked.
C1_UnconstrainedReturnsListing ==
    (Returned /\ Unconstrained) =>
        /\ Len(jobs) = Len(job_listing)
        /\ \A i \in 1..Len(job_listing) : jobs[i] = ServerJob(job_listing[i].ID)
        /\ (pc = "done" /\ cmd.fields = <<>>) => stdout[1].value = DocsOf(job_listing)

C1_Witness ==
    /\ pc = "done"
    /\ Unconstrained
    /\ cmd.fields = <<>>
    /\ Len(job_listing) = 2
    /\ Len(jobs) = 2

\* The tri-state law (C2), for Periodic and for ParameterizedJob, the other criteria
\* fixed: must-be-true keeps exactly the entries whose flag is Some(true),
\* must-be-false keeps the others (an absent flag counts as false), the two
\* results are disjoint and together are the unconstrained result; and the run
\* returns the result of its own setting.
C2_PeriodicLaw ==
    LET c == MainCriteria
        U == SelectSeq(job_listing, LAMBDA e : Survives([c EXCEPT !.periodic_filter = NoneBool], e))
        T == SelectSeq(job_listing, LAMBDA e : Survives([c EXCEPT !.periodic_filter = Some(TRUE)], e))
        F == SelectSeq(job_listing, LAMBDA e : Survives([c EXCEPT !.periodic_filter = Some(FALSE)], e))
        flagged == SelectSeq(U, LAMBDA e : e.Periodic = Some(TRUE))
        others == SelectSeq(U, LAMBDA e : e.Periodic # Some(TRUE))
    IN /\ T = flagged
       /\ F = others
       /\ Range(T) \cap Range(F) = {}
       /\ Range(T) \cup Range(F) = Range(U)
       /\ \A i \in 1..Len(U) : U[i].Periodic = NoneBool => U[i] \in Range(F) \ Range(T)
       /\ jobs = DocsOf(IF ~periodic.some THEN U ELSE IF periodic.v THEN flagged ELSE others)

C2_ParameterizedLaw ==
    LET c == MainCriteria
        U == SelectSeq(job_listing, LAMBDA e : Survives([c EXCEPT !.parameterized_filter = NoneBool], e))
        T == SelectSeq(job_listing, LAMBDA e : Survives([c EXCEPT !.parameterized_filter = Some(TRUE)], e))
        F == SelectSeq(job_listing, LAMBDA e : Survives([c EXCEPT !.parameterized_filter = Some(FALSE)], e))
        flagged == SelectSeq(U, LAMBDA e : e.ParameterizedJob = Some(TRUE))
        others == SelectSeq(U, LAMBDA e : e.ParameterizedJob # Some(TRUE))
    IN /\ T = flagged
       /\ F = others
       /\ Range(T) \cap Range(F) = {}
       /\ Range(T) \cup Range(F) = Range(U)
       /\ \A i \in 1..Len(U) : U[i].ParameterizedJob = NoneBool => U[i] \in Range(F) \ Range(T)
       /\ jobs = DocsOf(IF ~parameterized.some THEN U ELSE IF parameterized.v THEN flagged ELSE others)

\* C2: whenever get_jobs has returned, the tri-state law holds of the periodic
\* filter and of the parameterized filter.
C2_TriStateLaw == Returned => (C2_PeriodicLaw /\ C2_ParameterizedLaw)

C2_Witness ==
    /\ pc = "done"
    /\ periodic = Some(FALSE)
    /\ job_listing = <<Example, ExDispatch>>
    /\ jobs = <<ExampleDoc>>

Failure == result.kind \in {"Err", "Panic"}

\* C4: once the listing call or a detail fetch has failed, nothing is ever on
\* standard output, the process has ended with a non-zero status, and no step
\* follows; whatever is on standard output was printed by a run without failure.
C4_FailureAbortsCommand ==
    /\ Failure =>
         /\ stdout = <<>>
         /\ exit_code.some /\ exit_code.v # 0
         /\ pc \in {"failed", "panicked"}
         /\ ~ENABLED Next
    /\ stdout # <<>> => (pc = "done" /\ result.kind = "Ok" /\ exit_code = Some(0))

C4_Witness ==
    /\ Failure
    /\ result.fn = "get_job"
    /\ Len(job_listing) = 2
    /\ Len(jobs) = 1
    /\ stdout = <<>>

\* how many listing entries the iterator chain has taken so far
C5_Reached ==
    IF pc \in {"output", "done"} THEN Len(job_listing)
    ELSE IF Failure THEN idx
    ELSE idx - 1

\* C5: fetch protocol: the requests of a run are one listing request followed by
\* one detail request for each entry, among those the chain has reached, that
\* meets every constrained predicate, in listing order, and no other; a
\* successful run has made 1 + (number of survivors) requests.
C5_FetchProtocol ==
    /\ pc \in {"start", "flags", "usage", "list"} => requests = <<>>
    /\ (pc \in {"select", "output", "done", "failed"} \/ (pc = "panicked" /\ ncalls > 0)) =>
         LET reached == SelectSeq(SubSeq(job_listing, 1, C5_Reached), Wanted) IN
         requests = <<JobsPath(<<>>)>> \o [i \in 1..Len(reached) |-> JobPath(reached[i].ID)]
    /\ ncalls = Len(requests)
    /\ pc = "done" => Len(requests) = 1 + Len(jobs)

C5_Witness ==
    /\ pc = "done"
    /\ cmd.periodic
    /\ job_listing = <<Example, ExCron>>
    /\ requests = <<JobsPath(<<>>), JobPath(ExCron.ID)>>
    /\ jobs = <<ExCronDoc>>

\* C6: projection: when fields are requested, what is printed is one mapping per
\* job in order; the mapping of job j has key k exactly when $.k resolves to a
\* node of job j, holds no other key, and the value under k is the last node the
\* path engine resolved.
C6_ProjectionPolicy ==
    (pc = "done" /\ cmd.fields # <<>>) =>
        LET out == stdout[1].value IN
        /\ stdout[1].projected
        /\ Len(out) = Len(jobs)
        /\ \A j \in 1..Len(jobs) :
             /\ DOMAIN out[j] \subseteq Range(cmd.fields)
             /\ \A k \in Range(cmd.fields) :
                  LET matches == select(jobs[j], k) IN
                  /\ k \in DOMAIN out[j] <=> matches # <<>>
                  /\ matches # <<>> => out[j][k] = Last(matches)

C6_Witness ==
    /\ pc = "done"
    /\ FieldMetaAll \in Range(cmd.fields)
    /\ jobs = <<BatchDoc, ExDispatchDoc>>
    /\ FieldMetaAll \notin DOMAIN stdout[1].value[1]
    /\ stdout[1].value[2][FieldMetaAll] = <<<<<<>>, "3">>>>

\* C7: handle_negative_flags maps (false,false) to None, (true,false) to
\* Some(true), (false,true) to Some(false) and panics on (true,true); main never
\* reaches it with a conflicting pair, and past it holds the tri-states of the
\* command line.
C7_TriStateConstruction ==
    /\ handle_negative_flags(<<FALSE, FALSE>>) = [panic |-> FALSE, v |-> NoneBool]
    /\ handle_negative_flags(<<TRUE, FALSE>>) = [panic |-> FALSE, v |-> Some(TRUE)]
    /\ handle_negative_flags(<<FALSE, TRUE>>) = [panic |-> FALSE, v |-> Some(FALSE)]
    /\ handle_negative_flags(<<TRUE, TRUE>>).panic
    /\ pc \notin {"start", "usage"} =>
         /\ ~(cmd.periodic /\ cmd.no_periodic)
         /\ ~(cmd.parameterized /\ cmd.no_parameterized)
    /\ pc = "usage" => (conflicts_with(cmd) /\ exit_code.some /\ exit_code.v # 0)
    /\ \A i \in 1..Len(stderr) : stderr[i] # "This shouldn't happen"
    /\ pc \notin {"start", "usage", "flags"} =>
         /\ periodic = (IF cmd.periodic THEN Some(TRUE) ELSE IF cmd.no_periodic THEN Some(FALSE) ELSE NoneBool)
         /\ parameterized = (IF cmd.parameterized THEN Some(TRUE)
                             ELSE IF cmd.no_parameterized THEN Some(FALSE) ELSE NoneBool)

C7_Witness ==
    /\ pc = "list"
    /\ cmd.no_periodic
    /\ cmd.parameterized
    /\ periodic = Some(FALSE)
    /\ parameterized = Some(TRUE)

(***************************************************************************)
(* Properties of the library (LibSpec).                                    *)
(***************************************************************************)
Count(s, c) == Cardinality({i \in 1..Len(s) : s[i] = c})
HexValue(d) == (CHOOSE i \in 1..Len(HexDigits) : HexDigits[i] = d) - 1
IsAlnum(c) == Ord(c) \in (48..57) \cup (65..90) \cup (97..122)

\* percent-decoding, what the server does with the query token
RECURSIVE PercentDecode(_)
PercentDecode(s) ==
    IF s = <<>> THEN <<>>
    ELSE IF Head(s) = "%"
         THEN <<Chr(16 * HexValue(s[2]) + HexValue(s[3]))>> \o PercentDecode(SubSeq(s, 4, Len(s)))
         ELSE <<Head(s)>> \o PercentDecode(Tail(s))

Chars_jobs_prefix == <<"j", "o", "b", "s", "?", "p", "r", "e", "f", "i", "x", "=">>
Chars_dispatch_encoded ==
    <<"d", "i", "s", "p", "a", "t", "c", "h", "%", "2", "D", "e", "x", "a", "m", "p", "l", "e",
      "%", "2", "F", "p", "e", "r", "i", "o", "d", "i", "c", "%", "2", "D", "1", "0", "2", "0", "0", "2">>

\* C8: every call of get_jobs makes exactly one request, to "jobs?prefix="
\* followed by the prefix with every character that is no ASCII letter or digit
\* percent-encoded: one '?', one '=', only letters, digits and %XX after it, and
\* decoding gives the prefix back; the three paths of the tests.
C8_ListingPath ==
    /\ Len(requests) = ncalls
    /\ result.fn = "get_jobs" =>
         LET path == Last(requests)
             token == SubSeq(path, Len(Chars_jobs_prefix) + 1, Len(path))
         IN /\ SubSeq(path, 1, Len(Chars_jobs_prefix)) = Chars_jobs_prefix
            /\ Count(path, "?") = 1
            /\ Count(path, "=") = 1
            /\ \A i \in 1..Len(token) : IsAlnum(token[i]) \/ token[i] = "%"
            /\ Len(token) = Len(result.arg) + 2 * Count(token, "%")
            /\ PercentDecode(token) = result.arg
            /\ result.arg = <<>> => path = Chars_jobs_prefix
            /\ result.arg = Str_example => path = Chars_jobs_prefix \o Str_example
            /\ result.arg = Str_dispatch => path = Chars_jobs_prefix \o Chars_dispatch_encoded

C8_Witness ==
    /\ result.fn = "get_jobs"
    /\ result.arg = Str_dispatch
    /\ ncalls = 2
    /\ Last(requests) = Chars_jobs_prefix \o Chars_dispatch_encoded

TransportFailed(o) == o.synthetic
Unreadable(o) == o.body = "not_json"

\* C9: get_job asks for "job/<id>", the identifier as given, and returns the
\* error "failed to read response" whenever the request ends in a transport
\* failure or in a response whose body is not JSON; get_jobs returns the same
\* error for a listing response whose body is not JSON.
C9_RepositoryFailureContract ==
    /\ result.fn = "get_job" =>
         /\ Last(requests) = <<"j", "o", "b", "/">> \o result.arg
         /\ (TransportFailed(result.outcome) \/ Unreadable(result.outcome)) =>
              (result.kind = "Err" /\ result.msg = ReadMsg)
    /\ (result.fn = "get_jobs" /\ ~TransportFailed(result.outcome) /\ Unreadable(result.outcome)) =>
         (result.kind = "Err" /\ result.msg = ReadMsg)

\* C10: Client::get returns every transport failure as an error that names the
\* configured address, every 4xx/5xx response as an error that carries the
\* status and the body, and only a 2xx response as success.
C10_AdapterClassification ==
    result.fn = "Client::get" =>
        LET o == result.outcome IN
        /\ TransportFailed(o) => (result.kind = "Err" /\ result.msg.address = address)
        /\ (~TransportFailed(o) /\ o.status >= 400) =>
             (result.kind = "Err" /\ result.msg.status = o.status)
        /\ result.kind = "Ok" => (~TransportFailed(o) /\ o.status \in 200..299)

====
